---- MODULE Spec2Model ----
(***************************************************************************)
(* Schelling segregation on a graph: the incremental happiness-and-        *)
(* occupancy engine of Python_Version/modelJ.py (class Schelling) and      *)
(* Python_Version/agentsJ.py (class SchellingAgent).                       *)
(*                                                                         *)
(* A Schelling instance is a record holding the fields of the Python       *)
(* object; every method is an operator from records to records, and the    *)
(* actions apply them.  Rationals (density, minority_pc, homophily) are    *)
(* pairs <<numerator, denominator>>; every comparison the code makes on    *)
(* them is made by cross-multiplication.                                   *)
(***************************************************************************)
EXTENDS Integers, Sequences, FiniteSets, TLC

VARIABLES
    model,        \* Spec: the one Schelling instance
    inst,         \* SpecShared: the instances of one process, by number
    grandom,      \* SpecShared: the generator of module random, shared by all
    alone,        \* SpecShared: each instance as it runs with no other instance
    alone_random, \* SpecShared: the module generator of each run alone
    trace,        \* SpecShared: each instance's placement and moves so far
    runner        \* SpecRunner: the main process of py_schelling_mp_runner.py

sharedvars == <<inst, grandom, alone, alone_random, trace, runner>>
vars == <<model, inst, grandom, alone, alone_random, trace, runner>>

(***************************************************************************)
(* Bounds of the model.                                                    *)
(***************************************************************************)
\* largest number of nodes of an input graph
MaxNodes == 4
\* largest number of step() calls followed on one instance
MaxSteps == 3
\* number of states of a pseudo-random generator
RngStates == 5
\* largest --iterations given to the process-pool runner
MaxIterations == 3

\* agent.pos before place_agent / after remove_agent (Python None)
None == -1

(***************************************************************************)
(* Sequence helpers (Python list operations).                              *)
(***************************************************************************)
Range(s) == {s[i] : i \in 1..Len(s)}

\* number of occurrences of x in list s
Occurrences(s, x) == Cardinality({i \in 1..Len(s) : s[i] = x})

\* list.remove(x): drops the first occurrence of x (the caller checks x is there)
ListRemove(s, x) ==
    LET i == CHOOSE k \in 1..Len(s) : s[k] = x /\ \A j \in 1..(k-1) : s[j] # x
    IN  SubSeq(s, 1, i-1) \o SubSeq(s, i+1, Len(s))

(***************************************************************************)
(* Input graphs.  A graph is a function from its nodes 0..N-1 to the       *)
(* ordered list of neighbours networkx iterates (edge insertion order).    *)
(***************************************************************************)
\* networkx lollipop_graph(cs, pl): a clique on 0..cs-1, a path on cs..cs+pl-1,
\* and the edge (cs-1, cs) added last
lollipop_graph(cs, pl) ==
    LET N == cs + pl
        Asc(S) == LET RECURSIVE up(_, _)
                      up(k, acc) == IF k >= N THEN acc
                                    ELSE up(k+1, IF k \in S THEN Append(acc, k) ELSE acc)
                  IN  up(0, <<>>)
        clique(v) == Asc({u \in 0..(cs-1) : u # v})
        path(v) == Asc({u \in cs..(N-1) : u = v-1 \/ u = v+1})
    IN  [v \in 0..(N-1) |->
            IF v < cs
            THEN clique(v) \o (IF v = cs-1 /\ pl > 0 THEN <<cs>> ELSE <<>>)
            ELSE path(v) \o (IF v = cs THEN <<cs-1>> ELSE <<>>)]

\* a graph of one node and no edge
single_node_graph == [v \in {0} |-> <<>>]

InputGraphs ==
    {single_node_graph}
    \cup {lollipop_graph(cs, N - cs) : <<cs, N>> \in
             {p \in (2..MaxNodes) \X (2..MaxNodes) : p[1] <= p[2]}}

\* parameters the drivers pass: density, minority_pc, homophily in their ranges
Densities == {<<1, 2>>, <<3, 5>>}
Minorities == {<<1, 2>>}
Homophilies == {<<0, 1>>, <<1, 2>>, <<1, 1>>}

(***************************************************************************)
(* Arithmetic of the constructor.                                          *)
(***************************************************************************)
\* Python round() of the non-negative rational p/q: to nearest, ties to even
round(p, q) ==
    LET fl == p \div q
        r  == p % q
    IN  IF 2*r < q THEN fl
        ELSE IF 2*r > q THEN fl + 1
        ELSE IF fl % 2 = 0 THEN fl ELSE fl + 1

number_of_nodes(m) == Cardinality(DOMAIN m.G)

\* total_agents = density * number_of_nodes, as the rational <<p, q>>
total_agents(m) == <<m.density[1] * number_of_nodes(m), m.density[2]>>

\* agents0_count = round(total_agents * minority_pc)
agents0_count(m) ==
    round(total_agents(m)[1] * m.minority_pc[1], total_agents(m)[2] * m.minority_pc[2])

(***************************************************************************)
(* mesa.space.NetworkGrid, as the code uses it.                            *)
(***************************************************************************)
RECURSIVE get_cell_list_contents(_, _)
\* the agents on the nodes of cell_list, in list order
get_cell_list_contents(m, cell_list) ==
    IF cell_list = <<>> THEN <<>>
    ELSE m.grid[Head(cell_list)] \o get_cell_list_contents(m, Tail(cell_list))

\* the agents on the neighbouring nodes of node (include_center=False)
get_neighbors(m, node) == get_cell_list_contents(m, m.addresses[node])

place_agent(m, a, node) ==
    [m EXCEPT !.grid[node] = Append(@, a), !.agents[a].pos = node]

remove_agent(m, a) ==
    [m EXCEPT !.grid[m.agents[a].pos] = ListRemove(@, a), !.agents[a].pos = None]

\* move_agent that places without removing from the old node
move_agent_no_remove(m, a, node) == place_agent(m, a, node)

move_agent(m, a, node) == place_agent(remove_agent(m, a), a, node)

(***************************************************************************)
(* SchellingAgent.count / recount / move.                                  *)
(***************************************************************************)
\* similar_total with "neighbor.type != self.type" where the code has "=="
similar_total_other_type(m, a) ==
    LET neighbors == get_neighbors(m, m.agents[a].pos)
    IN  Cardinality({i \in 1..Len(neighbors) :
                        m.agents[neighbors[i]].type # m.agents[a].type})

\* similar_total counting only the neighbours of its type that are happy
similar_total_happy_only(m, a) ==
    LET neighbors == get_neighbors(m, m.agents[a].pos)
    IN  Cardinality({i \in 1..Len(neighbors) :
                        /\ m.agents[neighbors[i]].type = m.agents[a].type
                        /\ m.agents[neighbors[i]].happy = TRUE})

\* similar_total: the neighbours of agent a that have its type
similar_total(m, a) ==
    LET neighbors == get_neighbors(m, m.agents[a].pos)
    IN  Cardinality({i \in 1..Len(neighbors) :
                        m.agents[neighbors[i]].type = m.agents[a].type})

\* similar_enough with "similar = 0" where the code has "similar = 1"
similar_enough_isolated_zero(m, a) ==
    LET n == Len(get_neighbors(m, m.agents[a].pos))
    IN  IF n > 0
        THEN similar_total(m, a) * m.homophily[2] >= m.homophily[1] * n
        ELSE 0 >= m.homophily[1]

\* similar_enough dividing by the number of neighbouring nodes, empty ones too
similar_enough_all_nodes(m, a) ==
    LET n == Len(m.addresses[m.agents[a].pos])
    IN  IF n > 0
        THEN similar_total(m, a) * m.homophily[2] >= m.homophily[1] * n
        ELSE m.homophily[2] >= m.homophily[1]

\* similar_enough with "similar > homophily" where the code has ">="
similar_enough_strict(m, a) ==
    LET n == Len(get_neighbors(m, m.agents[a].pos))
    IN  IF n > 0
        THEN similar_total(m, a) * m.homophily[2] > m.homophily[1] * n
        ELSE m.homophily[2] > m.homophily[1]

\* similar >= homophily, similar being similar_total / len(neighbors), or 1 when
\* there is no neighbour
similar_enough(m, a) ==
    LET n == Len(get_neighbors(m, m.agents[a].pos))
    IN  IF n > 0
        THEN similar_total(m, a) * m.homophily[2] >= m.homophily[1] * n
        ELSE m.homophily[2] >= m.homophily[1]

\* count with "self.model.unhappy_list = [self]" where the code appends self
count_list_replaced(m, a) ==
    IF similar_enough(m, a)
    THEN [m EXCEPT !.agents[a].happy = TRUE, !.happy = @ + 1]
    ELSE [m EXCEPT !.agents[a].happy = FALSE, !.unhappy_list = <<a>>]

\* SchellingAgent.count
count(m, a) ==
    IF similar_enough(m, a)
    THEN [m EXCEPT !.agents[a].happy = TRUE, !.happy = @ + 1]
    ELSE [m EXCEPT !.agents[a].happy = FALSE, !.unhappy_list = Append(@, a)]

\* recount without "self.model.happy -= 1"
recount_no_decrement(m, a) ==
    IF m.raised # "none" THEN m
    ELSE IF similar_enough(m, a)
    THEN IF m.agents[a].happy = FALSE
         THEN IF a \in Range(m.unhappy_list)
              THEN [m EXCEPT !.happy = @ + 1, !.agents[a].happy = TRUE,
                             !.unhappy_list = ListRemove(@, a)]
              ELSE [m EXCEPT !.happy = @ + 1, !.agents[a].happy = TRUE,
                             !.raised = "ValueError"]
         ELSE m
    ELSE IF m.agents[a].happy = TRUE
         THEN [m EXCEPT !.agents[a].happy = FALSE, !.unhappy_list = Append(@, a)]
         ELSE m

\* recount without the tests "if self.happy == False" / "if self.happy == True"
recount_unguarded(m, a) ==
    IF m.raised # "none" THEN m
    ELSE IF similar_enough(m, a)
    THEN IF a \in Range(m.unhappy_list)
         THEN [m EXCEPT !.happy = @ + 1, !.agents[a].happy = TRUE,
                        !.unhappy_list = ListRemove(@, a)]
         ELSE [m EXCEPT !.happy = @ + 1, !.agents[a].happy = TRUE]
    ELSE [m EXCEPT !.happy = @ - 1, !.agents[a].happy = FALSE,
                   !.unhappy_list = Append(@, a)]

\* recount with "self.model.unhappy_list.pop(0)" where the code removes self
recount_pop_first(m, a) ==
    IF m.raised # "none" THEN m
    ELSE IF similar_enough(m, a)
    THEN IF m.agents[a].happy = FALSE
         THEN IF m.unhappy_list # <<>>
              THEN [m EXCEPT !.happy = @ + 1, !.agents[a].happy = TRUE,
                             !.unhappy_list = Tail(@)]
              ELSE [m EXCEPT !.happy = @ + 1, !.agents[a].happy = TRUE,
                             !.raised = "IndexError"]
         ELSE m
    ELSE IF m.agents[a].happy = TRUE
         THEN [m EXCEPT !.happy = @ - 1, !.agents[a].happy = FALSE,
                        !.unhappy_list = Append(@, a)]
         ELSE m

\* recount without "self.model.unhappy_list.append(self)"
recount_no_append(m, a) ==
    IF m.raised # "none" THEN m
    ELSE IF similar_enough(m, a)
    THEN IF m.agents[a].happy = FALSE
         THEN IF a \in Range(m.unhappy_list)
              THEN [m EXCEPT !.happy = @ + 1, !.agents[a].happy = TRUE,
                             !.unhappy_list = ListRemove(@, a)]
              ELSE [m EXCEPT !.happy = @ + 1, !.agents[a].happy = TRUE,
                             !.raised = "ValueError"]
         ELSE m
    ELSE IF m.agents[a].happy = TRUE
         THEN [m EXCEPT !.happy = @ - 1, !.agents[a].happy = FALSE]
         ELSE m

\* recount without "self.model.unhappy_list.remove(self)"
recount_no_remove(m, a) ==
    IF m.raised # "none" THEN m
    ELSE IF similar_enough(m, a)
    THEN IF m.agents[a].happy = FALSE
         THEN [m EXCEPT !.happy = @ + 1, !.agents[a].happy = TRUE]
         ELSE m
    ELSE IF m.agents[a].happy = TRUE
         THEN [m EXCEPT !.happy = @ - 1, !.agents[a].happy = FALSE,
                        !.unhappy_list = Append(@, a)]
         ELSE m

recount(m, a) ==
    IF m.raised # "none" THEN m
    ELSE IF similar_enough(m, a)
    THEN IF m.agents[a].happy = FALSE
         THEN IF a \in Range(m.unhappy_list)
              THEN [m EXCEPT !.happy = @ + 1, !.agents[a].happy = TRUE,
                             !.unhappy_list = ListRemove(@, a)]
              ELSE [m EXCEPT !.happy = @ + 1, !.agents[a].happy = TRUE,
                             !.raised = "ValueError"]
         ELSE m
    ELSE IF m.agents[a].happy = TRUE
         THEN [m EXCEPT !.happy = @ - 1, !.agents[a].happy = FALSE,
                        !.unhappy_list = Append(@, a)]
         ELSE m

RECURSIVE recount_each(_, _)
\* for n in agent_seq: n.recount()
recount_each(m, agent_seq) ==
    IF agent_seq = <<>> THEN m
    ELSE recount_each(recount(m, Head(agent_seq)), Tail(agent_seq))

\* relocate without "self.model.empty.remove(pos)"
relocate_keep_dest(m, a, j) ==
    LET old == m.agents[a].pos
        pos == m.empty[j + 1]
        m1  == [m EXCEPT !.empty = Append(@, old)]
        m2  == move_agent(m1, a, pos)
    IN  [m2 EXCEPT !.number_of_moves = @ + 1,
                   !.last = [agent |-> a, origin |-> old, dest |-> pos, flipped |-> {}]]

\* relocate without "self.model.empty.append(self.pos)"
relocate_no_append(m, a, j) ==
    LET old == m.agents[a].pos
        pos == m.empty[j + 1]
        m2  == move_agent(m, a, pos)
        m3  == [m2 EXCEPT !.empty = ListRemove(@, pos)]
    IN  [m3 EXCEPT !.number_of_moves = @ + 1,
                   !.last = [agent |-> a, origin |-> old, dest |-> pos, flipped |-> {}]]

\* relocate without "self.model.number_of_moves += 1"
relocate_no_increment(m, a, j) ==
    LET old == m.agents[a].pos
        pos == m.empty[j + 1]
        m1  == [m EXCEPT !.empty = Append(@, old)]
        m2  == move_agent(m1, a, pos)
        m3  == [m2 EXCEPT !.empty = ListRemove(@, pos)]
    IN  [m3 EXCEPT !.last = [agent |-> a, origin |-> old, dest |-> pos, flipped |-> {}]]

\* the relocation of move(): lines 95-107, j the index random.choice draws in empty
relocate(m, a, j) ==
    LET old == m.agents[a].pos
        pos == m.empty[j + 1]
        m1  == [m EXCEPT !.empty = Append(@, old)]
        m2  == move_agent(m1, a, pos)
        m3  == [m2 EXCEPT !.empty = ListRemove(@, pos)]
    IN  [m3 EXCEPT !.number_of_moves = @ + 1,
                   !.last = [agent |-> a, origin |-> old, dest |-> pos, flipped |-> {}]]

\* move without "for n in neighbors: n.recount()"
move_skip_old_neighbors(m, a, j) ==
    IF m.agents[a].happy = FALSE
    THEN IF m.empty = <<>>
         THEN [m EXCEPT !.raised = "IndexError"]
         ELSE LET m1 == relocate(m, a, j)
                  new_neighbors ==
                      get_cell_list_contents(m1, m1.addresses[m1.agents[a].pos])
              IN  recount_each(recount(m1, a), new_neighbors)
    ELSE m

\* move that marks every agent happy (a global reset) before it recounts the three groups
move_reset_flags(m, a, j) ==
    IF m.agents[a].happy = FALSE
    THEN IF m.empty = <<>>
         THEN [m EXCEPT !.raised = "IndexError"]
         ELSE LET neighbors == get_cell_list_contents(m, m.addresses[m.agents[a].pos])
                  m1 == relocate(m, a, j)
                  new_neighbors ==
                      get_cell_list_contents(m1, m1.addresses[m1.agents[a].pos])
                  m2 == [m1 EXCEPT !.agents = [b \in DOMAIN @ |->
                                                  [@[b] EXCEPT !.happy = TRUE]],
                                   !.happy = m1.n_agents, !.unhappy_list = <<>>]
              IN  recount_each(recount_each(recount(m2, a), neighbors), new_neighbors)
    ELSE m

\* move without the test "if self.happy == False"
move_unguarded(m, a, j) ==
    IF m.empty = <<>>
    THEN [m EXCEPT !.raised = "IndexError"]
    ELSE LET neighbors == get_cell_list_contents(m, m.addresses[m.agents[a].pos])
             m1 == relocate(m, a, j)
             new_neighbors ==
                 get_cell_list_contents(m1, m1.addresses[m1.agents[a].pos])
         IN  recount_each(recount_each(recount(m1, a), neighbors), new_neighbors)

\* move with "self.model.empty.append(self.pos)" before "pos = random.choice(...)"
move_append_first(m, a, j) ==
    IF m.agents[a].happy = FALSE
    THEN LET neighbors == get_cell_list_contents(m, m.addresses[m.agents[a].pos])
             old == m.agents[a].pos
             m0  == [m EXCEPT !.empty = Append(@, old)]
             pos == m0.empty[j + 1]
             m1  == move_agent(m0, a, pos)
             m2  == [m1 EXCEPT !.empty = ListRemove(@, pos),
                               !.number_of_moves = @ + 1,
                               !.last = [agent |-> a, origin |-> old, dest |-> pos,
                                         flipped |-> {}]]
             new_neighbors ==
                 get_cell_list_contents(m2, m2.addresses[m2.agents[a].pos])
         IN  recount_each(recount_each(recount(m2, a), neighbors), new_neighbors)
    ELSE m

\* move with the recounts of the agent and of its old neighbours made before the
\* relocation
move_recount_first(m, a, j) ==
    IF m.agents[a].happy = FALSE
    THEN IF m.empty = <<>>
         THEN [m EXCEPT !.raised = "IndexError"]
         ELSE LET neighbors == get_cell_list_contents(m, m.addresses[m.agents[a].pos])
                  m0 == recount_each(recount(m, a), neighbors)
                  m1 == relocate(m0, a, j)
                  new_neighbors ==
                      get_cell_list_contents(m1, m1.addresses[m1.agents[a].pos])
              IN  recount_each(m1, new_neighbors)
    ELSE m

\* the agents move() calls recount() on, in the order of the calls (lines 110-114)
recount_calls(m, a, j) ==
    LET neighbors == get_cell_list_contents(m, m.addresses[m.agents[a].pos])
        m1 == relocate(m, a, j)
        new_neighbors ==
            get_cell_list_contents(m1, m1.addresses[m1.agents[a].pos])
    IN  <<a>> \o neighbors \o new_neighbors

\* SchellingAgent.move, j the index random.choice draws in empty
move(m, a, j) ==
    IF m.agents[a].happy = FALSE
    THEN IF m.empty = <<>>
         THEN [m EXCEPT !.raised = "IndexError"]
         ELSE LET neighbors == get_cell_list_contents(m, m.addresses[m.agents[a].pos])
                  m1 == relocate(m, a, j)
                  new_neighbors ==
                      get_cell_list_contents(m1, m1.addresses[m1.agents[a].pos])
              IN  recount_each(recount_each(recount(m1, a), neighbors), new_neighbors)
    ELSE m

(***************************************************************************)
(* Schelling.__init__ and Schelling.step.                                  *)
(***************************************************************************)
\* the instance when the placement loops start (lines 49-91)
new_model(G, density, minority_pc, homophily, seed) ==
    [G |-> G, density |-> density, minority_pc |-> minority_pc,
     homophily |-> homophily,
     seed |-> seed,
     random |-> seed % RngStates,
     grid |-> [v \in DOMAIN G |-> <<>>],
     addresses |-> G,
     happy |-> 0,
     empty |-> LET RECURSIVE nodes(_)
                   nodes(k) == IF k >= Cardinality(DOMAIN G) THEN <<>>
                               ELSE <<k>> \o nodes(k + 1)
               IN  nodes(0),
     agent_list |-> <<>>,
     agents |-> <<>>,
     n_agents |-> 0,
     unhappy_list |-> <<>>,
     number_of_moves |-> 0,
     steps |-> 0,
     running |-> TRUE,
     uncounted |-> {},
     last |-> [agent |-> 0, origin |-> None, dest |-> None, flipped |-> {}],
     raised |-> "none",
     result |-> None,
     pc |-> "spawn0"]

\* spawn with "self.empty.pop(0)" where the code has "self.empty.remove(node)"
spawn_pop_first(m, agent_type, j) ==
    IF m.empty = <<>> THEN [m EXCEPT !.raised = "IndexError"]
    ELSE LET a    == Len(m.agents) + 1
             node == m.empty[j + 1]
             m1   == [m EXCEPT !.agents =
                         Append(@, [type |-> agent_type, pos |-> None, happy |-> FALSE])]
             m2   == place_agent(m1, a, node)
         IN  [m2 EXCEPT !.empty = Tail(@),
                        !.agent_list = Append(@, a),
                        !.n_agents = @ + 1]

\* one iteration of a placement loop, j the index random.choice draws in empty
spawn(m, agent_type, j) ==
    IF m.empty = <<>> THEN [m EXCEPT !.raised = "IndexError"]
    ELSE LET a    == Len(m.agents) + 1
             node == m.empty[j + 1]
             m1   == [m EXCEPT !.agents =
                         Append(@, [type |-> agent_type, pos |-> None, happy |-> FALSE])]
             m2   == place_agent(m1, a, node)
         IN  [m2 EXCEPT !.empty = ListRemove(@, node),
                        !.agent_list = Append(@, a),
                        !.n_agents = @ + 1]

\* step with "one_agent = random.choice(self.agent_list)"
step_any_agent(m, i, j) ==
    IF m.agent_list = <<>>
    THEN [m EXCEPT !.raised = "IndexError"]
    ELSE LET m1 == move(m, m.agent_list[i + 1], j)
         IN  IF m1.raised # "none" THEN m1
             ELSE [m1 EXCEPT !.running = (m1.happy < m1.n_agents),
                             !.steps = @ + 1,
                             !.last.flipped = {a \in 1..Len(m.agents) :
                                 m1.agents[a].happy # m.agents[a].happy}]

\* step with "self.running = self.happy <= self.n_agents"
step_running_le(m, i, j) ==
    IF m.unhappy_list = <<>>
    THEN [m EXCEPT !.raised = "IndexError"]
    ELSE LET m1 == move(m, m.unhappy_list[i + 1], j)
         IN  IF m1.raised # "none" THEN m1
             ELSE [m1 EXCEPT !.running = (m1.happy <= m1.n_agents),
                             !.steps = @ + 1,
                             !.last.flipped = {a \in 1..Len(m.agents) :
                                 m1.agents[a].happy # m.agents[a].happy}]

\* Schelling.step, i and j the indexes random.choice draws
step(m, i, j) ==
    IF m.unhappy_list = <<>>
    THEN [m EXCEPT !.raised = "IndexError"]
    ELSE LET m1 == move(m, m.unhappy_list[i + 1], j)
         IN  IF m1.raised # "none" THEN m1
             ELSE [m1 EXCEPT !.running = (m1.happy < m1.n_agents),
                             !.steps = @ + 1,
                             !.last.flipped = {a \in 1..Len(m.agents) :
                                 m1.agents[a].happy # m.agents[a].happy}]

\* the indexes random.choice(s) can return
Draws(s) == IF s = <<>> THEN {0} ELSE 0..(Len(s) - 1)

(***************************************************************************)
(* One instance, every random draw free.                                   *)
(***************************************************************************)
\* seed of run_schelling_process_py and of the runners
DefaultSeed == 42

\* the variables of the other specification, at rest
Idle ==
    /\ inst = <<>> /\ grandom = 0
    /\ alone = <<>> /\ alone_random = <<>> /\ trace = <<>>
    /\ runner = <<>>

Init ==
    /\ \E G \in InputGraphs, d \in Densities, mp \in Minorities, h \in Homophilies :
           model = new_model(G, d, mp, h, DefaultSeed)
    /\ Idle

\* the test of the first placement loop fails at once or after an iteration
EnterSpawn1 ==
    /\ model.pc = "spawn0" /\ model.raised = "none"
    /\ ~(model.n_agents < agents0_count(model))
    /\ model' = [model EXCEPT !.pc = "spawn1"]
    /\ UNCHANGED sharedvars

Spawn0 ==
    /\ model.pc = "spawn0" /\ model.raised = "none"
    /\ model.n_agents < agents0_count(model)
    /\ \E j \in Draws(model.empty) : model' = spawn(model, 0, j)
    /\ UNCHANGED sharedvars

Spawn1 ==
    /\ model.pc = "spawn1" /\ model.raised = "none"
    /\ model.n_agents * total_agents(model)[2] < total_agents(model)[1]
    /\ \E j \in Draws(model.empty) : model' = spawn(model, 1, j)
    /\ UNCHANGED sharedvars

EnterCount ==
    /\ model.pc = "spawn1" /\ model.raised = "none"
    /\ ~(model.n_agents * total_agents(model)[2] < total_agents(model)[1])
    /\ model' = [model EXCEPT !.pc = IF model.n_agents = 0 THEN "run" ELSE "count",
                              !.uncounted = 1..model.n_agents]
    /\ UNCHANGED sharedvars

\* shuffle_do("count"): the next agent of the shuffled order
Count ==
    /\ model.pc = "count"
    /\ \E a \in model.uncounted :
           LET m1 == count(model, a)
               left == model.uncounted \ {a}
           IN  model' = [m1 EXCEPT !.uncounted = left,
                                   !.pc = IF left = {} THEN "run" ELSE "count"]
    /\ UNCHANGED sharedvars

\* the drivers call step() while happy < n_agents
Step ==
    /\ model.pc = "run" /\ model.raised = "none"
    /\ model.happy < model.n_agents
    /\ model.steps < MaxSteps
    /\ \E i \in Draws(model.unhappy_list), j \in Draws(model.empty) :
           model' = step(model, i, j)
    /\ UNCHANGED sharedvars

\* a caller calls step() although no agent is unhappy
StepNobodyUnhappy ==
    /\ model.pc = "run" /\ model.raised = "none"
    /\ model.unhappy_list = <<>>
    /\ \E i \in Draws(model.unhappy_list), j \in Draws(model.empty) :
           model' = step(model, i, j)
    /\ UNCHANGED sharedvars

\* a caller calls move() on an agent whose flag is True
MoveHappyAgent ==
    /\ model.pc = "run" /\ model.raised = "none"
    /\ \E a \in 1..Len(model.agents), j \in Draws(model.empty) :
           /\ model.agents[a].happy = TRUE
           /\ model' = move(model, a, j)
    /\ UNCHANGED sharedvars

\* construction, then the loop of the drivers
NextRun == EnterSpawn1 \/ Spawn0 \/ Spawn1 \/ EnterCount \/ Count \/ Step

Next == NextRun \/ StepNobodyUnhappy \/ MoveHappyAgent

Spec == Init /\ [][Next]_vars

(***************************************************************************)
(* run_schelling_process_py: a lollipop graph, the model built on it, the  *)
(* loop "while m.happy < m.n_agents: m.step()", and the return of          *)
(* number_of_moves.                                                        *)
(***************************************************************************)
RunPyGraphs ==
    {lollipop_graph(cs, N - cs) : <<cs, N>> \in
        {p \in (2..MaxNodes) \X (2..MaxNodes) : p[1] <= p[2]}}

InitRunPy ==
    /\ \E G \in RunPyGraphs, d \in Densities, h \in Homophilies :
           model = new_model(G, d, <<1, 2>>, h, DefaultSeed)
    /\ Idle

\* return with the steps counted by mesa, less one, as app_headlessJ.py records
returned_steps_less_one(m) ==
    [m EXCEPT !.result = m.steps - 1, !.pc = "returned"]

\* return m.number_of_moves
returned(m) ==
    [m EXCEPT !.result = m.number_of_moves, !.pc = "returned"]

\* the test of the loop fails
Return ==
    /\ model.pc = "run" /\ model.raised = "none"
    /\ ~(model.happy < model.n_agents)
    /\ model' = returned(model)
    /\ UNCHANGED sharedvars

NextRunPy == NextRun \/ Return

SpecRunPy == InitRunPy /\ [][NextRunPy]_vars

(***************************************************************************)
(* The same function followed through its first steps only: the states in  *)
(* which the moves are examined call by call.                              *)
(***************************************************************************)
MaxFirstSteps == 1

\* a step() of the loop, among the first MaxFirstSteps
FirstStep ==
    /\ model.pc = "run" /\ model.raised = "none"
    /\ model.happy < model.n_agents
    /\ model.steps < MaxFirstSteps
    /\ \E i \in Draws(model.unhappy_list), j \in Draws(model.empty) :
           model' = step(model, i, j)
    /\ UNCHANGED sharedvars

NextFirstSteps ==
    EnterSpawn1 \/ Spawn0 \/ Spawn1 \/ EnterCount \/ Count \/ FirstStep \/ Return

SpecFirstSteps == InitRunPy /\ [][NextFirstSteps]_vars

\* a driver's loop on any input graph, followed through its first steps: the
\* states in which two orders of the initial count are compared
SpecCountOrder == Init /\ [][NextFirstSteps]_vars

(***************************************************************************)
(* The constructor called with any arguments, in and out of their ranges:  *)
(* __init__ takes what it is given.                                        *)
(***************************************************************************)
\* the largest graph of this specification
MaxConfigNodes == 3

\* a graph without nodes
null_graph == [v \in {} |-> <<>>]

ConfigGraphs ==
    {null_graph, single_node_graph}
    \cup {lollipop_graph(cs, N - cs) : <<cs, N>> \in
             {p \in (2..MaxConfigNodes) \X (2..MaxConfigNodes) : p[1] <= p[2]}}

ConfigDensities == {<<0, 1>>, <<1, 2>>, <<9, 10>>, <<1, 1>>, <<3, 2>>}
ConfigMinorities == {<<1, 2>>, <<3, 2>>}
ConfigHomophilies == {<<1, 2>>, <<3, 2>>}

InitConfig ==
    /\ \E G \in ConfigGraphs, d \in ConfigDensities, mp \in ConfigMinorities,
          h \in ConfigHomophilies :
           model = new_model(G, d, mp, h, DefaultSeed)
    /\ Idle

SpecConfig == InitConfig /\ [][Next]_vars

(***************************************************************************)
(* The complete graph on four nodes with three agents: nx.lollipop_graph   *)
(* with no path, density 0.75, the default minority_pc and homophily 0.5.  *)
(***************************************************************************)
Scenario2Graph == lollipop_graph(4, 0)

InitScenario2 ==
    /\ model = new_model(Scenario2Graph, <<3, 4>>, <<1, 2>>, <<1, 2>>, DefaultSeed)
    /\ Idle

SpecScenario2 == InitScenario2 /\ [][NextRun]_vars

(***************************************************************************)
(* Pseudo-random generators.  A generator is a deterministic machine: its  *)
(* state decides the value drawn and the next state.  random.Random(seed)  *)
(* starts from a state the seed decides; the generator of module random    *)
(* starts from a state the operating system's entropy decides.             *)
(***************************************************************************)
\* the value _randbelow(n) draws in generator state g, n > 0
randbelow(g, n) == g % n

\* the generator state after one draw
advance(g) == (g + 1) % RngStates

RECURSIVE shuffle_from(_, _, _)
\* random.shuffle: for i in reversed(range(1, len(x))): swap x[i], x[randbelow(i+1)]
\* (i is the 0-based index); yields the list and the generator state
shuffle_from(x, i, g) ==
    IF i < 1 THEN [list |-> x, g |-> g]
    ELSE LET j == randbelow(g, i + 1)
             y == [x EXCEPT ![i + 1] = x[j + 1], ![j + 1] = x[i + 1]]
         IN  shuffle_from(y, i - 1, advance(g))

shuffle(x, g) == shuffle_from(x, Len(x) - 1, g)

RECURSIVE spawn_loops(_, _)
\* the two placement loops, every node drawn by random.choice of module random (g)
spawn_loops(m, g) ==
    IF m.raised # "none" THEN [m |-> m, g |-> g]
    ELSE IF m.n_agents < agents0_count(m) /\ m.pc = "spawn0"
    THEN spawn_loops(spawn(m, 0, randbelow(g, Len(m.empty))), advance(g))
    ELSE IF m.pc = "spawn0"
    THEN spawn_loops([m EXCEPT !.pc = "spawn1"], g)
    ELSE IF m.n_agents * total_agents(m)[2] < total_agents(m)[1]
    THEN spawn_loops(spawn(m, 1, randbelow(g, Len(m.empty))), advance(g))
    ELSE [m |-> [m EXCEPT !.pc = "count"], g |-> g]

RECURSIVE count_each(_, _)
count_each(m, agent_seq) ==
    IF agent_seq = <<>> THEN m
    ELSE count_each(count(m, Head(agent_seq)), Tail(agent_seq))

\* self.agents.shuffle_do("count"): the order is drawn from self.random
shuffle_do_count(m) ==
    LET sh == shuffle(m.agent_list, m.random)
    IN  [count_each(m, sh.list) EXCEPT !.random = sh.g, !.pc = "run"]

\* Schelling(...) in a process whose module generator is in state g
construct(G, density, minority_pc, homophily, seed, g) ==
    LET placed == spawn_loops(new_model(G, density, minority_pc, homophily, seed), g)
    IN  [m |-> IF placed.m.raised # "none" THEN placed.m ELSE shuffle_do_count(placed.m),
         g |-> placed.g]

\* step() in a process whose module generator is in state g: both random.choice
\* calls draw from g
step_drawing(m, g) ==
    IF m.unhappy_list = <<>>
    THEN [m |-> step(m, 0, 0), g |-> g]
    ELSE LET i  == randbelow(g, Len(m.unhappy_list))
             g1 == advance(g)
         IN  IF m.empty = <<>>
             THEN [m |-> step(m, i, 0), g |-> g1]
             ELSE [m |-> step(m, i, randbelow(g1, Len(m.empty))), g |-> advance(g1)]

(***************************************************************************)
(* Two instances in one process, built from the same arguments and seed    *)
(* (the loop of py_schelling_standalone.py), their step() calls            *)
(* interleaved in any order.  alone[k] is instance k as it runs when it is *)
(* the only instance of its process, from the same initial generator.      *)
(***************************************************************************)
Instances == 1..2

Seeds == {DefaultSeed, DefaultSeed + 1}

\* not built yet
Absent == [pc |-> "absent"]

InitShared ==
    /\ \E G \in InputGraphs, d \in Densities, mp \in Minorities, h \in Homophilies,
          seed \in Seeds :
           model = new_model(G, d, mp, h, seed)
    /\ grandom \in 0..(RngStates - 1)
    /\ inst = [k \in Instances |-> Absent]
    /\ alone = [k \in Instances |-> Absent]
    /\ alone_random = [k \in Instances |-> grandom]
    /\ trace = [k \in Instances |-> [placement |-> <<>>, moves |-> <<>>]]
    /\ runner = <<>>

\* the arguments every instance is built from
Args == model

placement(m) == [a \in 1..Len(m.agents) |-> m.agents[a].pos]

Construct(k) ==
    /\ inst[k] = Absent
    /\ LET built == construct(Args.G, Args.density, Args.minority_pc,
                              Args.homophily, Args.seed,
                              grandom)
           solo  == construct(Args.G, Args.density, Args.minority_pc,
                              Args.homophily, Args.seed,
                              alone_random[k])
       IN  /\ inst' = [inst EXCEPT ![k] = built.m]
           /\ grandom' = built.g
           /\ alone' = [alone EXCEPT ![k] = solo.m]
           /\ alone_random' = [alone_random EXCEPT ![k] = solo.g]
           /\ trace' = [trace EXCEPT ![k].placement = placement(built.m)]
    /\ UNCHANGED <<model, runner>>

\* the driver's loop on instance k: while m.happy < m.n_agents: m.step()
StepInstance(k) ==
    /\ inst[k].pc = "run" /\ inst[k].raised = "none"
    /\ inst[k].happy < inst[k].n_agents
    /\ inst[k].steps < MaxSteps
    /\ LET r == step_drawing(inst[k], grandom)
           s == IF alone[k].raised = "none" /\ alone[k].happy < alone[k].n_agents
                THEN step_drawing(alone[k], alone_random[k])
                ELSE [m |-> alone[k], g |-> alone_random[k]]
       IN  /\ inst' = [inst EXCEPT ![k] = r.m]
           /\ grandom' = r.g
           /\ alone' = [alone EXCEPT ![k] = s.m]
           /\ alone_random' = [alone_random EXCEPT ![k] = s.g]
           /\ trace' = [trace EXCEPT ![k].moves =
                           IF r.m.raised = "none"
                           THEN Append(@, <<r.m.last.agent, r.m.last.dest>>)
                           ELSE @]
    /\ UNCHANGED <<model, runner>>

NextShared == \E k \in Instances : Construct(k) \/ StepInstance(k)

SpecShared == InitShared /\ [][NextShared]_vars

(***************************************************************************)
(* scripts/py_schelling_mp_runner.py: the process-pool runner.             *)
(*                                                                         *)
(* Python integers are unbounded; the seeds are kept as sequences of       *)
(* digits in base 65536, least significant first, with no leading zero.    *)
(* Times are whole milliseconds.                                           *)
(***************************************************************************)
RECURSIVE digits(_)
\* the digits of the natural number n
digits(n) == IF n = 0 THEN <<>> ELSE <<n % 65536>> \o digits(n \div 65536)

RECURSIVE times_digits(_, _, _)
\* k * a, a in digits, carry the carry into the lowest digit
times_digits(k, a, carry) ==
    IF a = <<>> THEN digits(carry)
    ELSE LET t == k * Head(a) + carry
         IN  <<t % 65536>> \o times_digits(k, Tail(a), t \div 65536)

RECURSIVE strip(_)
\* the digits without leading zeros
strip(a) ==
    IF a = <<>> THEN <<>>
    ELSE IF a[Len(a)] = 0 THEN strip(SubSeq(a, 1, Len(a) - 1))
    ELSE a

\* k * a for a natural number k
times(k, a) == strip(times_digits(k, a, 0))

RECURSIVE plus(_, _)
\* a + j for a natural number j
plus(a, j) ==
    IF j = 0 THEN a
    ELSE IF a = <<>> THEN digits(j)
    ELSE LET t == Head(a) + j
         IN  <<t % 65536>> \o plus(Tail(a), t \div 65536)

RECURSIVE xor_digit(_, _)
\* x ^ y on two digits
xor_digit(x, y) ==
    IF x = 0 THEN y
    ELSE IF y = 0 THEN x
    ELSE ((x + y) % 2) + 2 * xor_digit(x \div 2, y \div 2)

RECURSIVE xor_digits(_, _)
xor_digits(a, b) ==
    IF a = <<>> THEN b
    ELSE IF b = <<>> THEN a
    ELSE <<xor_digit(Head(a), Head(b))>> \o xor_digits(Tail(a), Tail(b))

\* a ^ b on non-negative integers
xor(a, b) == strip(xor_digits(a, b))

\* 1315423911 = 20071 * 65536 + 50855
cs_multiplier == <<50855, 20071>>
\* 2654435761 = 40503 * 65536 + 31153
pl_multiplier == <<31153, 40503>>

\* seed0 = int(args.seed) ^ (cs * 1315423911) ^ (pl * 2654435761)
seed0(args, cs, pl) ==
    xor(xor(digits(args.seed), times(cs, cs_multiplier)),
        times(pl, pl_multiplier))

RECURSIVE gen_sizes_from(_, _)
\* gen_sizes: the iterations i, i + 1, ... of its loop
gen_sizes_from(args, i) ==
    IF i >= args.count THEN <<>>
    ELSE LET cs == args.cs0 + i * args.step
             pl == IF args.family = "lollipop"
                   THEN (cs * args.num) \div args.den + args.off
                   ELSE args.pl_fixed
         IN  <<<<cs, pl>>>> \o gen_sizes_from(args, i + 1)

gen_sizes(args) == gen_sizes_from(args, 0)

RECURSIVE chunks_of(_, _, _, _)
\* the "while remaining > 0" loop of main for one size
chunks_of(args, cs, pl, remaining) ==
    IF remaining > 0
    THEN LET batch == IF 1 >= args.batch THEN 1 ELSE args.batch
             b     == IF batch <= remaining THEN batch ELSE remaining
         IN  <<[cs |-> cs, pl |-> pl, runs |-> b,
                density |-> args.density, homophily |-> args.homophily,
                seed0 |-> seed0(args, cs, pl)]>>
             \o chunks_of(args, cs, pl, remaining - b)
    ELSE <<>>

RECURSIVE build_chunks(_, _)
\* "Build work chunks": the loop of main over the sizes
build_chunks(args, sizes) ==
    IF sizes = <<>> THEN <<>>
    ELSE chunks_of(args, Head(sizes)[1], Head(sizes)[2], args.iterations)
         \o build_chunks(args, Tail(sizes))

\* the seeds _worker passes to run_schelling_process_py, in the order of its calls
worker_seeds(chunk) == [j \in 1..chunk.runs |-> plus(chunk.seed0, j - 1)]

\* what _worker returns, wall and cpu the times it has measured
worker(chunk, wall, cpu) ==
    [cs |-> chunk.cs, pl |-> chunk.pl, runs |-> chunk.runs,
     wall_ms |-> wall, cpu_ms |-> cpu]

\* the body of "for fut in as_completed(futs)" with "iters + 1" where the code
\* has "iters + runs"
collect_one_per_chunk(results, r) ==
    LET key == <<r.cs, r.pl>>
        old == IF key \in DOMAIN results THEN results[key]
               ELSE [iters |-> 0, wtot |-> 0, ctot |-> 0]
        new == [iters |-> old.iters + 1, wtot |-> old.wtot + r.wall_ms,
                ctot |-> old.ctot + r.cpu_ms]
    IN  [k \in DOMAIN results \cup {key} |-> IF k = key THEN new ELSE results[k]]

\* the body of "for fut in as_completed(futs)", r the result of the future
collect(results, r) ==
    LET key == <<r.cs, r.pl>>
        old == IF key \in DOMAIN results THEN results[key]
               ELSE [iters |-> 0, wtot |-> 0, ctot |-> 0]
        new == [iters |-> old.iters + r.runs, wtot |-> old.wtot + r.wall_ms,
                ctot |-> old.ctot + r.cpu_ms]
    IN  [k \in DOMAIN results \cup {key} |-> IF k = key THEN new ELSE results[k]]

\* the rows of the CSV file, by size: iterations, and the times per call as
\* the fractions <<total, max(1, iters)>>
rows(results) ==
    [k \in DOMAIN results |->
        LET calls == IF results[k].iters >= 1 THEN results[k].iters ELSE 1
        IN  [iterations |-> results[k].iters,
             real_time |-> <<results[k].wtot, calls>>,
             cpu_time |-> <<results[k].ctot, calls>>]]

\* the command lines followed
Families == {"lollipop", "clique-only"}
Counts == {0, 1, 2}
CliqueSteps == {0, 1}
Batches == {0, 1, 2}
\* the times a worker can measure for a chunk, <<wall, cpu>>
Timings == {<<2, 1>>, <<3, 3>>}

\* one size with every batch, two sizes, equal or not, with --batch 2
RunnerArgs ==
    {args \in [family : Families, cs0 : {2}, step : CliqueSteps, count : Counts,
               num : {1}, den : {2}, off : {0}, pl_fixed : {1},
               iterations : 0..MaxIterations,
               density : {<<4, 5>>}, homophily : {<<1, 2>>},
               seed : {DefaultSeed}, batch : Batches] :
        /\ (args.count < 2 => args.step = 1 /\ args.family = "lollipop")
        /\ (args.count = 0 \/ args.iterations = 0 => args.batch = 1)
        /\ (args.count = 2 => args.batch = 2)
        /\ (args.family = "clique-only" => args.step = 1)}

\* main after parse_args
InitRunner ==
    /\ \E args \in RunnerArgs :
           /\ runner = [args |-> args, sizes |-> <<>>, chunks |-> <<>>,
                        futs |-> <<>>, results |-> <<>>, rows |-> <<>>,
                        calls |-> <<>>, pc |-> "main"]
    /\ model = <<>>
    /\ inst = <<>> /\ grandom = 0
    /\ alone = <<>> /\ alone_random = <<>> /\ trace = <<>>

\* sizes = gen_sizes(args), the chunks are built and submitted to the pool
Submit ==
    /\ runner.pc = "main"
    /\ LET sizes  == gen_sizes(runner.args)
           chunks == build_chunks(runner.args, sizes)
       IN  runner' = [runner EXCEPT
               !.sizes = sizes,
               !.chunks = chunks,
               !.futs = [c \in 1..Len(chunks) |-> [state |-> "pending"]],
               !.calls = [c \in 1..Len(chunks) |-> <<>>],
               !.pc = "pool"]
    /\ UNCHANGED <<model, inst, grandom, alone, alone_random, trace>>

\* a worker process runs _worker on chunk c to its end
Worker(c) ==
    /\ runner.pc = "pool"
    /\ runner.futs[c].state = "pending"
    /\ \E t \in Timings :
           runner' = [runner EXCEPT
               !.futs[c] = [state |-> "done",
                            result |-> worker(runner.chunks[c], t[1], t[2])],
               !.calls[c] = worker_seeds(runner.chunks[c])]
    /\ UNCHANGED <<model, inst, grandom, alone, alone_random, trace>>

\* a call of run_schelling_process_py raises in the worker of chunk c, and
\* fut.result() raises in main
WorkerRaises(c) ==
    /\ runner.pc = "pool"
    /\ runner.futs[c].state = "pending"
    /\ runner' = [runner EXCEPT !.futs[c] = [state |-> "raised"],
                                !.pc = "raised"]
    /\ UNCHANGED <<model, inst, grandom, alone, alone_random, trace>>

\* as_completed yields the future of chunk c, main adds its result
Collect(c) ==
    /\ runner.pc = "pool"
    /\ runner.futs[c].state = "done"
    /\ runner' = [runner EXCEPT
           !.futs[c].state = "collected",
           !.results = collect(runner.results, runner.futs[c].result)]
    /\ UNCHANGED <<model, inst, grandom, alone, alone_random, trace>>

\* every future is collected: main writes the CSV file and returns
Emit ==
    /\ runner.pc = "pool"
    /\ \A c \in 1..Len(runner.futs) : runner.futs[c].state = "collected"
    /\ runner' = [runner EXCEPT !.rows = rows(runner.results), !.pc = "written"]
    /\ UNCHANGED <<model, inst, grandom, alone, alone_random, trace>>

NextRunner ==
    \/ Submit
    \/ \E c \in 1..Len(runner.futs) : Worker(c) \/ WorkerRaises(c) \/ Collect(c)
    \/ Emit

SpecRunner == InitRunner /\ [][NextRunner]_vars

(***************************************************************************)
(* Vocabulary of the properties.                                           *)
(***************************************************************************)
\* __init__ has returned
Constructed == model.pc = "run"

Agents == 1..Len(model.agents)
Nodes == DOMAIN model.G

\* the agents located on node v, by their recorded position
AgentsAt(v) == {a \in Agents : model.agents[a].pos = v}

OccupiedNodes == {v \in Nodes : AgentsAt(v) # {}}

\* the agents located on a neighbouring node of v
AdjacentAgents(v) == {b \in Agents : model.agents[b].pos \in Range(model.G[v])}

\* the verdict of a fresh evaluation of agent a on the current occupancy
FreshVerdict(a) ==
    LET occ  == AdjacentAgents(model.agents[a].pos)
        same == {b \in occ : model.agents[b].type = model.agents[a].type}
    IN  \/ occ = {}
        \/ Cardinality(same) * model.homophily[2]
               >= model.homophily[1] * Cardinality(occ)

\* the moves the state allows, as the indexes <<i, j>> step() can draw
Moves ==
    IF Constructed /\ model.raised = "none"
       /\ model.unhappy_list # <<>> /\ model.empty # <<>>
    THEN Draws(model.unhappy_list) \X Draws(model.empty)
    ELSE {}

\* the instance inside move d, relocated and not yet recounted: the flag of
\* every agent the move affects is still the one of the old occupancy
Relocated(d) == relocate(model, model.unhappy_list[d[1] + 1], d[2])

\* the states in which recount() is called or can be called: between
\* operations, and inside every move the state allows
RecountPoints == {model} \cup {Relocated(d) : d \in Moves}

(***************************************************************************)
(* C1  Counter consistency: after construction and after every step(),     *)
(* happy + len(unhappy_list) = n_agents.                                   *)
(***************************************************************************)
C1_CounterConsistency ==
    Constructed => model.happy + Len(model.unhappy_list) = model.n_agents

\* a step has flipped a flag and left happy and unhappy agents
C1_Witness ==
    /\ Constructed /\ model.number_of_moves >= 1
    /\ model.last.flipped # {}
    /\ model.happy > 0 /\ model.unhappy_list # <<>>

(***************************************************************************)
(* C2  Incremental tracking equals the full recompute: after construction  *)
(* and after every step(), every agent's happy flag is the verdict of a    *)
(* fresh evaluation on the current occupancy, and happy is the number of   *)
(* agents whose fresh verdict is happy.                                    *)
(***************************************************************************)
C2_TrackingEqualsOracle ==
    Constructed =>
        /\ \A a \in Agents : model.agents[a].happy = FreshVerdict(a)
        /\ model.happy = Cardinality({a \in Agents : FreshVerdict(a)})

\* a move has flipped the flag of an agent that did not move, next to the
\* origin node and not next to the destination
C2_Witness ==
    /\ Constructed /\ model.number_of_moves >= 1
    /\ \E b \in model.last.flipped :
           /\ b # model.last.agent
           /\ b \in AdjacentAgents(model.last.origin)
           /\ b \notin AdjacentAgents(model.last.dest)

(***************************************************************************)
(* C3  Conservation: after construction and after every step(), the        *)
(* occupied nodes and the entries of empty add up to the node count, and   *)
(* n_agents never changes once the constructor has returned.               *)
(***************************************************************************)
C3_Conservation ==
    /\ [](Constructed =>
             Cardinality(OccupiedNodes) + Len(model.empty) = Cardinality(Nodes))
    /\ [][Constructed => model'.n_agents = model.n_agents]_vars

\* two moves have been made and a node is still empty
C3_Witness ==
    /\ Constructed /\ model.number_of_moves >= 2
    /\ model.empty # <<>> /\ OccupiedNodes # {}

(***************************************************************************)
(* C4  Partition: a node is in empty iff no agent is located on it, it is  *)
(* there once, and empty and occupied nodes make up the node set.          *)
(***************************************************************************)
C4_EmptyPartition ==
    /\ \A v \in Nodes : (v \in Range(model.empty)) <=> (AgentsAt(v) = {})
    /\ \A v \in Nodes : Occurrences(model.empty, v) <= 1
    /\ Range(model.empty) \cup OccupiedNodes = Nodes
    /\ Range(model.empty) \cap OccupiedNodes = {}

\* a move has put the origin node back into empty, behind another empty node
C4_Witness ==
    /\ Constructed /\ model.number_of_moves >= 1
    /\ Len(model.empty) >= 2
    /\ model.empty[Len(model.empty)] = model.last.origin

(***************************************************************************)
(* C5  Single occupancy: no node holds more than one agent, and every      *)
(* placed agent is on exactly one node, the one recorded as its position.  *)
(***************************************************************************)
C5_SingleOccupancy ==
    /\ \A v \in Nodes : Len(model.grid[v]) <= 1
    /\ \A a \in Agents, v \in Nodes :
           (a \in Range(model.grid[v])) <=> (model.agents[a].pos = v)
    /\ \A a \in Agents : model.agents[a].pos \in Nodes
    /\ \A v \in Nodes : Cardinality(AgentsAt(v)) <= 1

\* an agent has moved and sits on its destination, others are placed too
C5_Witness ==
    /\ Constructed /\ model.number_of_moves >= 1
    /\ Len(model.agents) >= 2
    /\ model.grid[model.last.dest] = <<model.last.agent>>
    /\ model.grid[model.last.origin] = <<>>

(***************************************************************************)
(* C6  Locality: a step() changes the happy flag of no agent other than    *)
(* the moved agent and the agents on the neighbours of its old and of its  *)
(* new node.                                                               *)
(***************************************************************************)
C6_Locality ==
    [][(Constructed /\ model'.pc = "run") =>
        LET moved == {a \in Agents : model'.agents[a].pos # model.agents[a].pos}
        IN  \A b \in Agents :
                model'.agents[b].happy # model.agents[b].happy =>
                    \/ b \in moved
                    \/ \E a \in moved :
                           \/ model.agents[b].pos \in Range(model.G[model.agents[a].pos])
                           \/ model.agents[b].pos \in Range(model.G[model'.agents[a].pos])
    ]_vars

\* a move has flipped a flag while an agent stood away from both nodes
C6_Witness ==
    /\ Constructed /\ model.number_of_moves >= 1
    /\ model.last.flipped # {}
    /\ \E b \in Agents :
           /\ b # model.last.agent
           /\ b \notin AdjacentAgents(model.last.origin)
           /\ b \notin AdjacentAgents(model.last.dest)

(***************************************************************************)
(* C7  Idempotence of recount: between operations, and inside every move   *)
(* the state allows (relocated, flags not yet updated), a second recount() *)
(* of an agent leaves the instance (flag, happy, unhappy_list and all the  *)
(* rest) as the first call left it.                                        *)
(***************************************************************************)
C7_RecountIdempotent ==
    Constructed =>
        \A m \in RecountPoints : \A a \in Agents :
            \A once \in {recount(m, a)} : recount(once, a) = once

\* inside one move, a first call that makes an agent happy and a first call
\* that makes another agent unhappy
C7_Witness ==
    \E d \in Moves : \E m \in {Relocated(d)} :
        /\ \E a \in Agents : ~m.agents[a].happy /\ recount(m, a).agents[a].happy
        /\ \E a \in Agents : m.agents[a].happy /\ ~recount(m, a).agents[a].happy

(***************************************************************************)
(* C8  Isolation happiness: after construction and after every step(), an  *)
(* agent with no occupied neighbouring node is happy whatever the          *)
(* threshold; one agent on a one-node graph gives happy = 1 with no move.  *)
(***************************************************************************)
C8_IsolationHappiness ==
    Constructed =>
        /\ \A a \in Agents :
               AdjacentAgents(model.agents[a].pos) = {} => model.agents[a].happy
        /\ (Cardinality(Nodes) = 1 /\ model.n_agents = 1) =>
               (model.happy = 1 /\ model.number_of_moves = 0)

\* with threshold 1, a move has left an agent with no occupied neighbour
C8_Witness ==
    /\ Constructed /\ model.number_of_moves >= 1
    /\ model.homophily = <<1, 1>>
    /\ \E a \in Agents : AdjacentAgents(model.agents[a].pos) = {}

(***************************************************************************)
(* C9  Determinism: two instances built from identical topology, density,  *)
(* minority fraction, threshold and seed have the same initial placement,  *)
(* make the same moves (moved agent, destination) in the same order, and   *)
(* have the same move count at convergence.                                *)
(***************************************************************************)
Built(k) == inst[k].pc = "run"
Converged(k) == Built(k) /\ inst[k].happy = inst[k].n_agents

C9_Determinism ==
    (Built(1) /\ Built(2)) =>
        /\ trace[1].placement = trace[2].placement
        /\ \A n \in 1..Len(trace[1].moves) :
               n <= Len(trace[2].moves) => trace[1].moves[n] = trace[2].moves[n]
        /\ (Converged(1) /\ Converged(2)) =>
               inst[1].number_of_moves = inst[2].number_of_moves

(***************************************************************************)
(* C10  Instance independence: however the step() calls of two instances   *)
(* of one process are interleaved, each instance goes through the states   *)
(* (placement, moves, counters) it goes through when it runs alone.        *)
(***************************************************************************)
C10_InstanceIndependence ==
    \A k \in Instances : Built(k) => inst[k] = alone[k]

\* The agents whose type no other agent has.
LoneAgents ==
    {a \in Agents : \A b \in Agents \ {a} : model.agents[b].type # model.agents[a].type}

(***************************************************************************)
(* C11, as the specification states it: on the complete graph with three   *)
(* agents, one of one type and two of the other, and threshold 0.5, the    *)
(* run has converged once MaxSteps moves were made.                        *)
(***************************************************************************)
C11_ConvergesWithinBound ==
    (Constructed /\ model.number_of_moves >= MaxSteps)
        => model.happy = model.n_agents

(***************************************************************************)
(* C11, amended: on the complete graph with three agents, one of one type  *)
(* and two of the other, and threshold 0.5, the run never converges: in    *)
(* every state after construction the agent that is alone of its type is   *)
(* the one unhappy agent, wherever it has moved, and happy is 2.           *)
(***************************************************************************)
C11_Scenario2NeverConverges ==
    Constructed =>
        /\ model.n_agents = 3
        /\ Cardinality(LoneAgents) = 1
        /\ model.happy = 2
        /\ Range(model.unhappy_list) = LoneAgents
        /\ \A a \in Agents : model.agents[a].happy <=> a \notin LoneAgents

\* the lone agent has moved MaxSteps times and is still the one unhappy agent
C11_Witness ==
    /\ Constructed
    /\ model.number_of_moves = MaxSteps
    /\ model.happy = 2
    /\ model.last.agent \in LoneAgents
    /\ model.last.agent \in Range(model.unhappy_list)

(***************************************************************************)
(* C12: with homophily 0 every agent is happy once construction is over,   *)
(* the unhappy list is empty, and the loop that runs to convergence makes  *)
(* no step and no move.                                                    *)
(***************************************************************************)
C12_ZeroThreshold ==
    (Constructed /\ model.homophily[1] = 0) =>
        /\ model.happy = model.n_agents
        /\ model.unhappy_list = <<>>
        /\ \A a \in Agents : model.agents[a].happy = TRUE
        /\ ~ENABLED Step
        /\ model.number_of_moves = 0
        /\ model.steps = 0

\* homophily 0 and an agent all of whose neighbours are of the other type
C12_Witness ==
    /\ Constructed
    /\ model.homophily[1] = 0
    /\ \E a \in Agents :
           /\ AdjacentAgents(model.agents[a].pos) # {}
           /\ \A b \in AdjacentAgents(model.agents[a].pos) :
                  model.agents[b].type # model.agents[a].type

(***************************************************************************)
(* C13: after every step() called while some agent is unhappy, the flag    *)
(* running is False exactly when happy == n_agents in the state the step   *)
(* leaves.                                                                 *)
(***************************************************************************)
C13_IndicatorAfterStep ==
    [][(Constructed /\ model.happy < model.n_agents)
          => (~model'.running <=> model'.happy = model'.n_agents)]_vars

\* a step has just made the last unhappy agent happy, and running is False
C13_Witness ==
    /\ Constructed
    /\ model.steps >= 1
    /\ model.last.flipped # {}
    /\ model.happy = model.n_agents
    /\ ~model.running

(***************************************************************************)
(* C14, as the specification states it: when construction is over and no   *)
(* step() was called, the flag running is False if every agent is happy    *)
(* and True otherwise.                                                     *)
(***************************************************************************)
C14_InitialDriverState ==
    (Constructed /\ model.steps = 0 /\ model.raised = "none")
        => (~model.running <=> model.happy = model.n_agents)

(***************************************************************************)
(* C15: once happy == n_agents, it stays so: whatever is called next,      *)
(* step() or move(), no agent changes node, no flag flips, and             *)
(* number_of_moves, the unhappy list and the empty list stay as they are.  *)
(***************************************************************************)
C15_ConvergedTerminal ==
    [][(Constructed /\ model.happy = model.n_agents) =>
          /\ model'.happy = model'.n_agents
          /\ model'.n_agents = model.n_agents
          /\ model'.agents = model.agents
          /\ model'.grid = model.grid
          /\ model'.empty = model.empty
          /\ model'.unhappy_list = model.unhappy_list
          /\ model'.number_of_moves = model.number_of_moves]_vars

\* a run that converged by moving, and on which step() was called once more
C15_Witness ==
    /\ Constructed
    /\ model.number_of_moves >= 1
    /\ model.happy = model.n_agents
    /\ model.n_agents >= 2
    /\ model.raised = "IndexError"

(***************************************************************************)
(* C16, as the specification states it: with the unhappy list empty, a     *)
(* call of step(), or of move() on a happy agent, does nothing: it returns *)
(* without an error and leaves positions, the empty list, the flags,       *)
(* happy, the unhappy list and number_of_moves as they were.               *)
(***************************************************************************)
C16_NoActionWhenNobodyUnhappy ==
    [][(Constructed /\ model.raised = "none" /\ model.unhappy_list = <<>>) =>
          /\ model'.raised = "none"
          /\ model'.agents = model.agents
          /\ model'.grid = model.grid
          /\ model'.empty = model.empty
          /\ model'.happy = model.happy
          /\ model'.unhappy_list = model.unhappy_list
          /\ model'.number_of_moves = model.number_of_moves]_vars

(***************************************************************************)
(* C19: a step() taken while some agent is unhappy and the empty list is   *)
(* empty ends in an error, and positions, the empty list, the flags,       *)
(* happy, the unhappy list and number_of_moves are as before the call.     *)
(***************************************************************************)
C19_ExhaustionSignalled ==
    [][(Constructed /\ model.raised = "none" /\ model.empty = <<>>
            /\ model.unhappy_list # <<>> /\ model' # model) =>
          /\ model'.raised = "IndexError"
          /\ model' = [model EXCEPT !.raised = "IndexError"]]_vars

\* step() has raised on a full grid with an unhappy agent
C19_Witness ==
    /\ Constructed
    /\ model.empty = <<>>
    /\ model.unhappy_list # <<>>
    /\ model.raised = "IndexError"
    /\ model.number_of_moves = 0

(***************************************************************************)
(* C20, as the specification states it: when construction is over, the     *)
(* number of agents is round(density * N), the number of agents of type 0, *)
(* the type placed first, is round of that number times minority_pc, and   *)
(* every other agent is of type 1.                                         *)
(***************************************************************************)
C20_PopulationSizes ==
    Constructed =>
        LET total_agent_count ==
                round(model.density[1] * number_of_nodes(model), model.density[2])
        IN  /\ model.n_agents = total_agent_count
            /\ Len(model.agents) = total_agent_count
            /\ Cardinality({a \in Agents : model.agents[a].type = 0})
                   = round(total_agent_count * model.minority_pc[1], model.minority_pc[2])
            /\ \A a \in Agents : model.agents[a].type \in {0, 1}

\* The ranges the specification gives the parameters.
ValidDensity == 0 < model.density[1] /\ model.density[1] < model.density[2]
ValidHomophily == 0 <= model.homophily[1] /\ model.homophily[1] <= model.homophily[2]
ValidMinority ==
    0 <= model.minority_pc[1] /\ model.minority_pc[1] <= model.minority_pc[2]
ValidConfig ==
    ValidDensity /\ ValidHomophily /\ ValidMinority /\ number_of_nodes(model) >= 1

(***************************************************************************)
(* C17, as the specification states it: on a graph of two nodes or more,   *)
(* with a density strictly between 0 and 1 and the other parameters in     *)
(* their ranges, construction leaves an empty node, and the empty list is  *)
(* not empty in any state after it.                                        *)
(***************************************************************************)
C17_EmptyNeverRunsOut ==
    (Constructed /\ ValidConfig /\ number_of_nodes(model) >= 2)
        => model.empty # <<>>

(***************************************************************************)
(* C17, amended: on a graph of N >= 2 nodes, with the parameters in their  *)
(* ranges and density * N <= N - 1, construction leaves N - n_agents >= 1  *)
(* empty nodes, and there are as many in every state after it, so a move   *)
(* never finds the empty list empty.                                       *)
(***************************************************************************)
C17_EmptyLeftWhenRoom ==
    (Constructed /\ ValidConfig /\ number_of_nodes(model) >= 2
        /\ model.density[1] * number_of_nodes(model)
               <= (number_of_nodes(model) - 1) * model.density[2])
        => /\ Len(model.empty) = number_of_nodes(model) - model.n_agents
           /\ Len(model.empty) >= 1
           /\ model.raised = "none" \/ model.unhappy_list = <<>>

\* an unhappy agent has moved to the one empty node, and one node is empty again
C17_Witness ==
    /\ Constructed
    /\ ValidConfig
    /\ number_of_nodes(model) >= 2
    /\ model.number_of_moves >= 1
    /\ model.unhappy_list # <<>>
    /\ Len(model.empty) = 1

(***************************************************************************)
(* C18, as the specification states it: the constructor called with a      *)
(* density outside (0,1), a homophily or a minority_pc outside [0,1], or a *)
(* graph without nodes raises an error: no model comes out of it.          *)
(***************************************************************************)
C18_ConfigErrorsFatal ==
    ~ValidConfig => model.pc # "run"

(***************************************************************************)
(* C21: a step() made with an unhappy agent and an empty node moves one    *)
(* agent and no other, changes no type, and adds 1 to number_of_moves; so  *)
(* number_of_moves is the number of such steps made.                       *)
(***************************************************************************)
C21_OneRelocationPerStep ==
    /\ [](Constructed => model.number_of_moves = model.steps)
    /\ [][(Constructed /\ model.raised = "none" /\ model.unhappy_list # <<>>
              /\ model.empty # <<>> /\ model' # model) =>
            /\ Cardinality({a \in Agents :
                               model'.agents[a].pos # model.agents[a].pos}) = 1
            /\ Len(model'.agents) = Len(model.agents)
            /\ \A a \in Agents : model'.agents[a].type = model.agents[a].type
            /\ model'.number_of_moves = model.number_of_moves + 1
            /\ model'.steps = model.steps + 1]_vars

\* MaxSteps steps were made with another agent standing by
C21_Witness ==
    /\ Constructed
    /\ model.steps = MaxSteps
    /\ model.number_of_moves = MaxSteps
    /\ model.n_agents >= 2

(***************************************************************************)
(* C22, as the specification states it: the loop of a driver ends without  *)
(* a crash, and within a bounded number of steps, here MaxSteps: after     *)
(* that many steps every agent is happy or the loop has given up.          *)
(***************************************************************************)
C22_RunLoopTerminates ==
    /\ model.raised = "none"
    /\ (model.pc = "run" /\ model.steps >= MaxSteps) => model.happy = model.n_agents

(***************************************************************************)
(* C23: when run_schelling_process_py returns, every agent is happy, and   *)
(* the value returned is number_of_moves, which is the number of step()    *)
(* calls made, 0 when every agent was happy once construction was over.    *)
(***************************************************************************)
C23_RunPyPostcondition ==
    model.pc = "returned" =>
        /\ model.happy = model.n_agents
        /\ model.unhappy_list = <<>>
        /\ \A a \in Agents : model.agents[a].happy = TRUE
        /\ model.result = model.number_of_moves
        /\ model.result = model.steps
        /\ (model.last.agent = 0) => model.result = 0

\* the function has returned after two steps or more
C23_Witness ==
    /\ model.pc = "returned"
    /\ model.result >= 2
    /\ model.n_agents >= 2

(***************************************************************************)
(* C24: after construction and after every step(), an agent is in          *)
(* unhappy_list exactly when its flag happy is False, and no agent is in   *)
(* the list twice.                                                         *)
(***************************************************************************)
C24_UnhappyMembership ==
    Constructed =>
        /\ Range(model.unhappy_list) \subseteq Agents
        /\ \A a \in Agents :
               /\ a \in Range(model.unhappy_list) <=> model.agents[a].happy = FALSE
               /\ Occurrences(model.unhappy_list, a) <= 1

\* a step has made one agent happy and another unhappy, and one is left unhappy
C24_Witness ==
    /\ Constructed
    /\ model.steps >= 1
    /\ \E a, b \in model.last.flipped :
           /\ model.agents[a].happy = TRUE
           /\ model.agents[b].happy = FALSE
           /\ b \in Range(model.unhappy_list)
           /\ a \notin Range(model.unhappy_list)

(***************************************************************************)
(* C25: once construction is over, an agent is happy exactly when it has   *)
(* no occupied neighbouring node or the agents of its type among the       *)
(* agents on neighbouring nodes are a fraction >= homophily (empty nodes   *)
(* are not counted, equality is happy); happy is the number of such        *)
(* agents and unhappy_list holds the others.                               *)
(***************************************************************************)
C25_InitialCount ==
    (Constructed /\ model.steps = 0) =>
        LET occupied(a) == {b \in Agents \ {a} :
                               model.agents[b].pos \in Range(model.G[model.agents[a].pos])}
            same(a) == {b \in occupied(a) : model.agents[b].type = model.agents[a].type}
            verdict(a) ==
                \/ occupied(a) = {}
                \/ Cardinality(same(a)) * model.homophily[2]
                       >= model.homophily[1] * Cardinality(occupied(a))
        IN  /\ \A a \in Agents : model.agents[a].happy <=> verdict(a)
            /\ model.happy = Cardinality({a \in Agents : verdict(a)})
            /\ Range(model.unhappy_list) = {a \in Agents : ~verdict(a)}

\* after construction: an agent happy at threshold 1 beside an empty node, and
\* in another run an agent happy with exactly half its neighbours of its type
C25_Witness ==
    /\ Constructed /\ model.steps = 0
    /\ \E a \in Agents :
           LET occ == AdjacentAgents(model.agents[a].pos)
               same == {b \in occ : model.agents[b].type = model.agents[a].type}
           IN  /\ model.agents[a].happy
               /\ occ # {}
               /\ \/ /\ model.homophily = <<1, 1>>
                     /\ Cardinality(occ) < Len(model.G[model.agents[a].pos])
                  \/ /\ model.homophily = <<1, 2>>
                     /\ 2 * Cardinality(same) = Cardinality(occ)
                     /\ \E b \in Agents : ~model.agents[b].happy

(***************************************************************************)
(* C26: the agent a step() relocates was in unhappy_list, its flag False,  *)
(* before the step, and its destination was in empty, with no agent on     *)
(* it; and every unhappy agent and every empty node can be the ones drawn. *)
(***************************************************************************)
C26_LegalMoveSelection ==
    /\ [](Constructed =>
            \A d \in Moves : \A m \in {step(model, d[1], d[2])} :
                /\ m.last.agent = model.unhappy_list[d[1] + 1]
                /\ m.last.dest = model.empty[d[2] + 1]
                /\ m.agents[m.last.agent].pos = m.last.dest)
    /\ [][Constructed =>
            \A a \in Agents :
                model'.agents[a].pos # model.agents[a].pos =>
                    /\ a \in Range(model.unhappy_list)
                    /\ model.agents[a].happy = FALSE
                    /\ model'.agents[a].pos \in Range(model.empty)
                    /\ AgentsAt(model'.agents[a].pos) = {}]_vars

\* with two agents unhappy and two nodes empty, a step has moved an agent other
\* than agent 1 to a node other than the lowest empty one
C26_Witness ==
    /\ Constructed
    /\ model.number_of_moves = 1
    /\ model.last.agent >= 2
    /\ \E b \in Agents : b < model.last.agent /\ b \notin model.last.flipped
                          /\ model.agents[b].happy = FALSE
    /\ \E v \in Range(model.empty) : v # model.last.origin /\ v < model.last.dest

\* the agent move d relocates, and the calls of recount() the move makes
Mover(d) == model.unhappy_list[d[1] + 1]
RecountCalls(d) == recount_calls(model, Mover(d), d[2])

(***************************************************************************)
(* C27: the agents a move recounts are the moved agent, the agents that    *)
(* stood on neighbouring nodes of the origin before the relocation, and    *)
(* the agents on neighbouring nodes of the destination; every recount is   *)
(* made with the relocation complete (position, origin in empty,           *)
(* destination out of it), so each recounted agent leaves the move with    *)
(* the verdict of the new occupancy.                                       *)
(***************************************************************************)
C27_RecountSetAndOrder ==
    /\ [](Constructed =>
            \A d \in Moves : \A rel \in {Relocated(d)} :
                LET a == Mover(d)
                    origin == model.agents[a].pos
                    dest == model.empty[d[2] + 1]
                IN  /\ Range(RecountCalls(d)) =
                          {a} \cup AdjacentAgents(origin)
                              \cup {b \in Agents \ {a} :
                                       model.agents[b].pos \in Range(model.G[dest])}
                    /\ rel.agents[a].pos = dest
                    /\ origin \in Range(rel.empty)
                    /\ dest \notin Range(rel.empty)
                    /\ \A b \in Agents : rel.agents[b].happy = model.agents[b].happy
                    /\ \A after \in {step(model, d[1], d[2])} :
                           \A done \in {recount_each(rel, RecountCalls(d))} :
                               /\ after.agents = done.agents
                               /\ after.happy = done.happy
                               /\ after.unhappy_list = done.unhappy_list)
    /\ [][(Constructed /\ model'.number_of_moves # model.number_of_moves) =>
            LET a == model'.last.agent
                recounted == {a} \cup AdjacentAgents(model.agents[a].pos)
                                 \cup AdjacentAgents(model'.agents[a].pos)
            IN  \A b \in recounted : model'.agents[b].happy <=> FreshVerdict(b)']_vars

\* a move has turned an old neighbour unhappy or happy, and a new neighbour too
C27_Witness ==
    /\ Constructed
    /\ model.number_of_moves >= 1
    /\ \E b \in model.last.flipped \ {model.last.agent} :
           model.agents[b].pos \in Range(model.G[model.last.origin])
    /\ \E c \in model.last.flipped \ {model.last.agent} :
           model.agents[c].pos \in Range(model.G[model.last.dest])

RECURSIVE Orders(_)
\* the orders in which the calls of the sequence s can be made
Orders(s) ==
    IF s = <<>> THEN {<<>>}
    ELSE UNION {{<<x>> \o t : t \in Orders(ListRemove(s, x))} : x \in Range(s)}

\* what C28 compares: the flags, happy, the members of unhappy_list, no error
Outcome(m) ==
    [agents |-> m.agents, happy |-> m.happy,
     unhappy |-> Range(m.unhappy_list), raised |-> m.raised]

RECURSIVE EveryOrderGives(_, _, _)
\* from instance m, the calls of the sequence left, made in any order, end in
\* the outcome out
EveryOrderGives(m, left, out) ==
    IF left = <<>> THEN Outcome(m) = out
    ELSE \A x \in Range(left) :
             \A m1 \in {recount(m, x)} : \A rest \in {ListRemove(left, x)} :
                 EveryOrderGives(m1, rest, out)

(***************************************************************************)
(* C28: in whatever order a move makes its recount() calls on the moved    *)
(* agent, the old neighbours and the new neighbours, an agent of both      *)
(* groups being recounted twice, the flags, happy and the members of       *)
(* unhappy_list come out the same.                                         *)
(***************************************************************************)
C28_RecountOrderIndependence ==
    Constructed =>
        \A d \in Moves : \A rel \in {Relocated(d)} : \A calls \in {RecountCalls(d)} :
            \A out \in {Outcome(recount_each(rel, calls))} :
                /\ out.raised = "none"
                /\ EveryOrderGives(rel, calls, out)

\* a move that recounts an agent twice, in both groups of neighbours, and flips
\* the flags of two agents
C28_Witness ==
    /\ Constructed
    /\ \E d \in Moves : \E rel \in {Relocated(d)} : \E calls \in {RecountCalls(d)} :
           /\ \E b \in Range(calls) : Occurrences(calls, b) = 2
           /\ Cardinality(Orders(calls)) >= 6
           /\ \E done \in {recount_each(rel, calls)} :
                  Cardinality({b \in Agents :
                      done.agents[b].happy # model.agents[b].happy}) >= 2

(***************************************************************************)
(* C29: the destination of a move is never the node the agent stands on:   *)
(* it is drawn in empty before the origin is appended, so every move made  *)
(* puts the agent on another node.                                         *)
(***************************************************************************)
C29_DestinationNotOrigin ==
    [][(Constructed /\ model'.number_of_moves # model.number_of_moves) =>
          LET a == model'.last.agent
          IN  /\ model'.last.origin = model.agents[a].pos
              /\ model'.last.dest = model'.agents[a].pos
              /\ model'.last.dest # model'.last.origin
              /\ model'.last.origin \notin Range(model.empty)
              /\ model'.last.origin \in Range(model'.empty)]_vars

\* a move made with one node empty: the origin is now the one empty node
C29_Witness ==
    /\ Constructed
    /\ model.number_of_moves >= 2
    /\ model.empty = <<model.last.origin>>
    /\ model.agents[model.last.agent].pos = model.last.dest

\* the instance inside move d when the first k calls of recount() are made
AfterCalls(d, k) == recount_each(Relocated(d), SubSeq(RecountCalls(d), 1, k))

\* happy, unhappy_list and the flags of instance m agree
Consistent(m) ==
    /\ m.raised = "none"
    /\ m.happy + Len(m.unhappy_list) = m.n_agents
    /\ \A a \in 1..Len(m.agents) :
           /\ a \in Range(m.unhappy_list) <=> m.agents[a].happy = FALSE
           /\ Occurrences(m.unhappy_list, a) <= 1

\* the call of recount() on agent a that leads from before to m changes the
\* flag of a, happy and unhappy_list together, or nothing
OneRecount(before, m, a) ==
    \/ m = before
    \/ /\ m.agents[a].happy # before.agents[a].happy
       /\ m.happy = before.happy + (IF m.agents[a].happy THEN 1 ELSE -1)
       /\ Range(m.unhappy_list) =
              IF m.agents[a].happy
              THEN Range(before.unhappy_list) \ {a}
              ELSE Range(before.unhappy_list) \cup {a}
       /\ \A b \in 1..Len(m.agents) : b # a => m.agents[b] = before.agents[b]

RECURSIVE ConsistentThrough(_, _)
\* instance m is consistent, and so is every instance the calls left lead to
ConsistentThrough(m, left) ==
    /\ Consistent(m)
    /\ left # <<>> =>
           \A m1 \in {recount(m, Head(left))} :
               /\ OneRecount(m, m1, Head(left))
               /\ ConsistentThrough(m1, Tail(left))

(***************************************************************************)
(* C30: inside a move, after the relocation and after each call of         *)
(* recount(), happy + len(unhappy_list) = n_agents and an agent is in      *)
(* unhappy_list, once, exactly when its flag is False; a call changes the  *)
(* flag of the agent it is made on, happy and the list together, or        *)
(* nothing.                                                                *)
(***************************************************************************)
C30_ConsistencyInsideMove ==
    Constructed =>
        \A d \in Moves : \A rel \in {Relocated(d)} : \A calls \in {RecountCalls(d)} :
            /\ ConsistentThrough(rel, calls)
            /\ \A after \in {step(model, d[1], d[2])} :
                   \A done \in {recount_each(rel, calls)} :
                       /\ after.agents = done.agents
                       /\ after.happy = done.happy
                       /\ after.unhappy_list = done.unhappy_list

\* a move with a call that makes an agent happy and a later call that makes
\* another agent unhappy, or the other way round
C30_Witness ==
    /\ Constructed
    /\ \E d \in Moves : \E k \in 1..Len(RecountCalls(d)) :
           \E l \in (k + 1)..Len(RecountCalls(d)) :
               /\ AfterCalls(d, k).happy # AfterCalls(d, k - 1).happy
               /\ AfterCalls(d, l).happy # AfterCalls(d, l - 1).happy
               /\ AfterCalls(d, l).happy = AfterCalls(d, k - 1).happy

\* every agent is placed and count() has been called on none: the state in which
\* shuffle_do("count") starts
Placed == model.pc = "count" /\ model.uncounted = 1..model.n_agents

\* what the initial count sets: the flags, happy, the members of unhappy_list
Counters(m) ==
    [flags |-> [a \in 1..Len(m.agents) |-> m.agents[a].happy],
     happy |-> m.happy,
     unhappy |-> Range(m.unhappy_list)]

(***************************************************************************)
(* C31: for a fixed placement, every order in which count() is called on   *)
(* the agents gives the same happy flags, the same value of happy and the  *)
(* same members of unhappy_list.                                           *)
(***************************************************************************)
C31_CountOrderIndependence ==
    Placed =>
        \A first \in {Counters(count_each(model, model.agent_list))} :
            \A order \in Orders(model.agent_list) :
                Counters(count_each(model, order)) = first

\* a placement of three agents of which the count leaves two or more unhappy, in
\* a list whose order follows the order of the calls
C31_Witness ==
    /\ Placed
    /\ Cardinality(Orders(model.agent_list)) >= 6
    /\ \E o1 \in Orders(model.agent_list), o2 \in Orders(model.agent_list) :
           /\ Len(count_each(model, o1).unhappy_list) >= 2
           /\ count_each(model, o1).happy >= 1
           /\ count_each(model, o1).unhappy_list # count_each(model, o2).unhappy_list

\* the instance once count() has been called on the agents in the order given
Counted(order) == [count_each(model, order) EXCEPT !.pc = "run", !.uncounted = {}]

\* the instance m with unhappy_list left out
BesidesUnhappyList(m) == [m EXCEPT !.unhappy_list = <<>>]

\* two instances that differ at most in the order of unhappy_list
SameUpToListOrder(m1, m2) ==
    /\ BesidesUnhappyList(m1) = BesidesUnhappyList(m2)
    /\ Len(m1.unhappy_list) = Len(m2.unhappy_list)
    /\ \A a \in Range(m1.unhappy_list) \cup Range(m2.unhappy_list) :
           Occurrences(m1.unhappy_list, a) = Occurrences(m2.unhappy_list, a)

\* the sequences of n pairs of draws, the first of a pair reduced to an index of
\* unhappy_list and the second to an index of empty
RECURSIVE DrawSequences(_)
DrawSequences(n) ==
    IF n = 0 THEN {<<>>}
    ELSE {<<d>> \o t : d \in Draws(model.agent_list) \X Draws(model.empty),
                       t \in DrawSequences(n - 1)}

\* the run of a driver from instance m on the draws given: the moves made, as
\* pairs <<agent, destination>>, and number_of_moves at the end
RECURSIVE RunOn(_, _, _)
RunOn(m, draws, made) ==
    IF draws = <<>> \/ m.raised # "none" \/ ~(m.happy < m.n_agents)
    THEN [moves |-> made, number_of_moves |-> m.number_of_moves]
    ELSE LET i  == Head(draws)[1] % Len(m.unhappy_list)
             j  == IF m.empty = <<>> THEN 0 ELSE Head(draws)[2] % Len(m.empty)
             m1 == step(m, i, j)
         IN  RunOn(m1, Tail(draws),
                   IF m1.raised # "none" THEN made
                   ELSE Append(made, <<m1.last.agent, m1.last.dest>>))

(***************************************************************************)
(* C32 as stated: for a fixed placement and a fixed sequence of draws, two *)
(* runs that differ only in the order of the initial count make the same   *)
(* sequence of moves (agent, destination) and end with the same            *)
(* number_of_moves.                                                        *)
(***************************************************************************)
C32_SameMovesWhateverCountOrder ==
    Placed =>
        \A o1 \in Orders(model.agent_list), o2 \in Orders(model.agent_list) :
            \A draws \in DrawSequences(MaxSteps) :
                RunOn(Counted(o1), draws, <<>>) = RunOn(Counted(o2), draws, <<>>)

(***************************************************************************)
(* C32 amended: two runs that differ only in the order of the initial      *)
(* count start with the same flags, the same happy and the same members of *)
(* unhappy_list, in an order that follows the count; a step of two runs    *)
(* that differ only in the order of unhappy_list, drawing the same agent   *)
(* and the same index of empty, makes the same move and leaves them        *)
(* differing only in the order of unhappy_list; with the same order of     *)
(* unhappy_list the same draws give the same run.                          *)
(***************************************************************************)
C32_SameMovesUpToListOrder ==
    /\ Placed =>
           \A o1 \in Orders(model.agent_list), o2 \in Orders(model.agent_list) :
               \A m1 \in {Counted(o1)} : \A m2 \in {Counted(o2)} :
                   /\ SameUpToListOrder(m1, m2)
                   /\ m1.unhappy_list = m2.unhappy_list =>
                          \A draws \in DrawSequences(1) :
                              RunOn(m1, draws, <<>>) = RunOn(m2, draws, <<>>)
    /\ Constructed =>
           \A d \in Moves : \A after \in {step(model, d[1], d[2])} :
               \A list \in Orders(model.unhappy_list) :
                   \A other \in {[model EXCEPT !.unhappy_list = list]} :
                       \A i \in Draws(list) :
                           list[i + 1] = model.unhappy_list[d[1] + 1] =>
                               \A after2 \in {step(other, i, d[2])} :
                                   /\ SameUpToListOrder(after, after2)
                                   /\ after2.last.agent = after.last.agent
                                   /\ after2.last.dest = after.last.dest
                                   /\ after2.number_of_moves = after.number_of_moves

\* a placement whose count leaves two agents unhappy, in an order that follows
\* the order of the count, so that the same first draw moves another agent,
\* while the draw of the same agent makes the same move
C32_Witness ==
    /\ Placed
    /\ model.empty # <<>>
    /\ \E o1 \in Orders(model.agent_list), o2 \in Orders(model.agent_list) :
           \E m1 \in {Counted(o1)} : \E m2 \in {Counted(o2)} :
               /\ Len(m1.unhappy_list) >= 2
               /\ m1.unhappy_list # m2.unhappy_list
               /\ step(m1, 0, 0).last.agent # step(m2, 0, 0).last.agent
               /\ \E i \in Draws(m2.unhappy_list) :
                      /\ i # 0
                      /\ step(m2, i, 0).last = step(m1, 0, 0).last

\* the size of chunk c, the key of its row
SizeOf(c) == <<runner.chunks[c].cs, runner.chunks[c].pl>>

\* the chunks of size k, and those whose result main has added
ChunksOf(k) == {c \in 1..Len(runner.chunks) : SizeOf(c) = k}
CollectedOf(k) == {c \in ChunksOf(k) : runner.futs[c].state = "collected"}

RECURSIVE TotalRuns(_)
TotalRuns(C) ==
    IF C = {} THEN 0
    ELSE LET c == CHOOSE x \in C : TRUE
         IN  runner.chunks[c].runs + TotalRuns(C \ {c})

RECURSIVE TotalWall(_)
TotalWall(C) ==
    IF C = {} THEN 0
    ELSE LET c == CHOOSE x \in C : TRUE
         IN  runner.futs[c].result.wall_ms + TotalWall(C \ {c})

RECURSIVE TotalCpu(_)
TotalCpu(C) ==
    IF C = {} THEN 0
    ELSE LET c == CHOOSE x \in C : TRUE
         IN  runner.futs[c].result.cpu_ms + TotalCpu(C \ {c})

\* main has written the CSV file
Written == runner.pc = "written"

(***************************************************************************)
(* C33 as stated: whatever the order in which the chunks complete, the row *)
(* of every size reports the requested --iterations, and its wall and CPU  *)
(* totals are the sums over the chunks of the size.                        *)
(***************************************************************************)
C33_RowReportsRequestedIterations ==
    Written =>
        \A k \in DOMAIN runner.rows :
            /\ runner.rows[k].iterations = runner.args.iterations
            /\ runner.results[k].wtot = TotalWall(ChunksOf(k))
            /\ runner.results[k].ctot = TotalCpu(ChunksOf(k))

(***************************************************************************)
(* C33 amended: whatever the order in which the chunks complete, at every  *)
(* moment the entry of a size holds the sums of the runs, the wall times   *)
(* and the CPU times of the chunks of that size collected so far, each     *)
(* chunk once; the chunks of a size hold --iterations runs for each time   *)
(* the size is in the list of sizes, so the row written for a size reports *)
(* --iterations times the number of its occurrences, which is --iterations *)
(* when the sizes are distinct; with --iterations below 1 no row is        *)
(* written.                                                                *)
(***************************************************************************)
C33_AggregationByCompletion ==
    runner.pc \in {"pool", "written"} =>
        /\ \A k \in Range(runner.sizes) :
               /\ TotalRuns(ChunksOf(k))
                      = Occurrences(runner.sizes, k) * runner.args.iterations
               /\ k \in DOMAIN runner.results <=> CollectedOf(k) # {}
               /\ k \in DOMAIN runner.results =>
                      /\ runner.results[k].iters = TotalRuns(CollectedOf(k))
                      /\ runner.results[k].wtot = TotalWall(CollectedOf(k))
                      /\ runner.results[k].ctot = TotalCpu(CollectedOf(k))
        /\ DOMAIN runner.results \subseteq Range(runner.sizes)
        /\ Written =>
               /\ DOMAIN runner.rows =
                      IF runner.args.iterations >= 1 THEN Range(runner.sizes) ELSE {}
               /\ \A k \in DOMAIN runner.rows :
                      /\ CollectedOf(k) = ChunksOf(k)
                      /\ runner.rows[k].iterations
                             = Occurrences(runner.sizes, k) * runner.args.iterations
                      /\ Cardinality(Range(runner.sizes)) = Len(runner.sizes) =>
                             runner.rows[k].iterations = runner.args.iterations

\* the last chunk of a size, with fewer runs, is collected before the first
\* chunk of that size, while a chunk of another size is collected too
C33_Witness ==
    /\ runner.pc = "pool"
    /\ \E k \in Range(runner.sizes) : \E c1 \in ChunksOf(k), c2 \in ChunksOf(k) :
           /\ c1 < c2
           /\ runner.chunks[c2].runs < runner.chunks[c1].runs
           /\ runner.futs[c2].state = "collected"
           /\ runner.futs[c1].state = "done"
           /\ runner.futs[c1].result.wall_ms # runner.futs[c2].result.wall_ms
           /\ runner.results[k].iters = runner.chunks[c2].runs
           /\ \E k2 \in DOMAIN runner.results : k2 # k

(***************************************************************************)
(* C34: the seeds passed to run_schelling_process_py over the runs of one  *)
(* size are pairwise distinct, whatever --iterations and --batch.          *)
(***************************************************************************)
C34_SeedsDistinctWithinSize ==
    runner.pc \in {"pool", "written"} =>
        \A k \in Range(runner.sizes) :
            \A c1 \in ChunksOf(k), c2 \in ChunksOf(k) :
                \A j1 \in DOMAIN runner.calls[c1], j2 \in DOMAIN runner.calls[c2] :
                    <<c1, j1>> # <<c2, j2>> =>
                        runner.calls[c1][j1] # runner.calls[c2][j2]

====
